---- MODULE Spec2Model ----
(***************************************************************************)
(* A model of the agent_runner Run executor (agent_runner/core/run.py),    *)
(* the workspace loader (agent_runner/core/workspace.py) and the helpers   *)
(* they rely on.  One Run object executes one workspace: Run.execute walks *)
(* the nextStep pointers, Run._execute_step calls the language-model       *)
(* gateway once and dispatches the requested tool calls, and               *)
(* Run._execute_function resolves and calls one function.                  *)
(***************************************************************************)
EXTENDS Integers, Sequences, FiniteSets, TLC

(***************************************************************************)
(* Bounds of the model.                                                    *)
(***************************************************************************)
\* longest batch of tool calls one gateway response requests
MaxBatch == 2
\* tool calls requested over one whole run
MaxCalls == 2
\* step executions of one run (a cyclic nextStep chain never ends)
MaxStepExecs == 3

(***************************************************************************)
(* Python dict helpers.  A dict is a function; {} is the empty function.   *)
(***************************************************************************)
EmptyDict == <<>>

\* d.get(k, default)
Get(d, k, default) == IF k \in DOMAIN d THEN d[k] ELSE default

\* d[k] = v
Put(d, k, v) == [x \in (DOMAIN d) \cup {k} |-> IF x = k THEN v ELSE d[x]]

\* truthiness of a dict or a list
Truthy(d) == DOMAIN d # {}

(***************************************************************************)
(* The workspace source: an insertion-ordered dict, modelled as a sequence *)
(* of <<key, value>> pairs.  A key is a sequence of text segments; the     *)
(* markers "@func-", "@step-" and "#details" are segments of their own.    *)
(***************************************************************************)
\* a test that every key passes
EndsWithAnything(key) == Len(key) > 0

\* key.endswith('#details')
EndsWithDetails(key) == Len(key) > 0 /\ key[Len(key)] = "#details"

\* marker in key
Contains(key, marker) == \E i \in 1..Len(key) : key[i] = marker

\* position of the first occurrence of marker in key
FirstIndex(key, marker) ==
    CHOOSE i \in 1..Len(key) :
        key[i] = marker /\ \A j \in 1..(i - 1) : key[j] # marker

\* a segment that starts a new piece for split(marker) or split('#')
IsCut(seg, marker) == seg = marker \/ seg = "#details" \/ seg = "#"

RECURSIVE JoinUntilCut(_, _, _)
JoinUntilCut(key, i, marker) ==
    IF i > Len(key) \/ IsCut(key[i], marker) THEN ""
    ELSE key[i] \o JoinUntilCut(key, i + 1, marker)

\* key.split(marker)[1].split('#')[0]
NameAfter(key, marker) == JoinUntilCut(key, FirstIndex(key, marker) + 1, marker)

\* WorkspaceData
WorkspaceData(functions, steps, step_details, function_details) ==
    [functions |-> functions, steps |-> steps,
     step_details |-> step_details, function_details |-> function_details]

\* the body of the for loop of WorkspaceManager.load, for one item
LoadItem(acc, key, value) ==
    IF ~EndsWithDetails(key) THEN acc
    ELSE IF Contains(key, "@func-")
    THEN [acc EXCEPT !.function_details =
              Put(@, NameAfter(key, "@func-"), value)]
    ELSE IF Contains(key, "@step-")
    THEN [acc EXCEPT !.step_details =
              Put(@, NameAfter(key, "@step-"), value)]
    ELSE [acc EXCEPT
              !.steps = IF "steps" \in DOMAIN value THEN value.steps ELSE @,
              !.functions = IF "functions" \in DOMAIN value
                            THEN value.functions ELSE @]

RECURSIVE LoadFrom(_, _, _)
LoadFrom(acc, workspace_json, i) ==
    IF i > Len(workspace_json) THEN acc
    ELSE LoadFrom(LoadItem(acc, workspace_json[i][1], workspace_json[i][2]),
                  workspace_json, i + 1)

\* WorkspaceManager.load: every source is accepted, nothing is validated
load(workspace_json) ==
    LoadFrom(WorkspaceData(<<>>, <<>>, EmptyDict, EmptyDict), workspace_json, 1)


(***************************************************************************)
(* The workspaces the runs are started on.  Two step ids and a catalog of  *)
(* three functions: f (inline synchronous code), g (inline asynchronous    *)
(* code) and h (described, but without inline code and not importable).    *)
(* Inline code is modelled by the namespace that exec() of it produces:    *)
(* a dict from the names it defines to the kind of function defined.       *)
(***************************************************************************)
StepIds == {"s1", "s2"}

\* the 'parameters' of f: those of process_text of the sample workspace
SampleParameters ==
    <<[type |-> "string", name |-> "text", description |-> "The text"],
      [type |-> "array", name |-> "operations", description |-> "The operations"]>>

FuncDetail(name) ==
    IF name = "f"
    THEN [description |-> "f", parameters |-> SampleParameters,
          code |-> [f |-> "sync"]]
    ELSE IF name = "g" THEN [description |-> "g", code |-> [g |-> "async"]]
    ELSE [description |-> "h"]

Chat(step) ==
    IF step = "s1"
    THEN <<[role |-> "system", content |-> "sys1"],
           [role |-> "user", content |-> "usr1"]>>
    ELSE <<[role |-> "user", content |-> "usr2"]>>

StepDetail(step, funcs, next, pass, par) ==
    [chat |-> Chat(step), function |-> funcs, nextStep |-> next,
     model |-> "openai/gpt-4o", runFunctionsInParallel |-> par,
     passConversationToNextStep |-> pass]

\* the 'function' list of s2: that of s1 and, when s1 has functions, one more
\* name, "u", for which the source has no '@func-' item
Step2Functions(funcs) == IF funcs = <<>> THEN <<>> ELSE Append(funcs, "u")

\* the flat key-encoded source of a workspace with steps s1 and s2
WorkspaceJson(steps, funcs, next1, next2, pass1, pass2, par) ==
    << << <<"W", "@v1", "#details">>, [steps |-> steps] >>,
       << <<"W", "@v1", "@step-", "s1", "#details">>,
          StepDetail("s1", funcs, next1, pass1, par) >>,
       << <<"W", "@v1", "@step-", "s2", "#details">>,
          StepDetail("s2", Step2Functions(funcs), next2, pass2, par) >>,
       << <<"W", "@v1", "@func-", "f", "#details">>, FuncDetail("f") >>,
       << <<"W", "@v1", "@func-", "g", "#details">>, FuncDetail("g") >>,
       << <<"W", "@v1", "@func-", "h", "#details">>, FuncDetail("h") >>,
       << <<"W", "@v1", "#notes">>, [steps |-> <<>>] >> >>

\* nextStep values: the sentinel, a known step, a step id that is not defined
NextSteps == StepIds \cup {"-", "zz"}

\* the 'function' lists of the steps: no function, or the whole catalog
FunctionLists == {<<>>, <<"f", "g", "h">>}

WorkspaceJsons ==
    {WorkspaceJson(<<>>, <<>>, "-", "-", FALSE, FALSE, FALSE)} \cup
    {WorkspaceJson(<<[id |-> "s1"], [id |-> "s2"]>>, fl, n1, n2, p1, p2, par) :
        fl \in FunctionLists, n1 \in NextSteps, n2 \in {"-", "s1"},
        p1 \in BOOLEAN, p2 \in BOOLEAN, par \in BOOLEAN}

(***************************************************************************)
(* Resolution of a function name (Run._execute_function, find_function).   *)
(***************************************************************************)
\* names bound in the module namespace of run.py: its imports and Run
GlobalNames ==
    {"asyncio", "json", "time", "Dict", "List", "Any", "Optional", "datetime",
     "importlib", "inspect", "litellm", "Langfuse", "AsyncClient", "DBRun",
     "DBRunStep", "DBChat", "DBRunFunctionCall", "Session", "Run"}

\* names n for which agent_runner.functions.n is a module with attribute n
ImportableNames == {}

\* the function found for func_name, or the ValueError raised; none of the
\* module globals is a coroutine function
find_function(func_name, func_details) ==
    IF func_name \in GlobalNames
    THEN [found |-> TRUE, kind |-> "sync"]
    ELSE IF func_name \in ImportableNames
    THEN [found |-> TRUE, kind |-> "sync"]
    ELSE LET function_code == Get(func_details, "code", EmptyDict) IN
         IF ~Truthy(function_code)
         THEN [found |-> FALSE, error |-> <<"not found and no code provided", func_name>>]
         ELSE IF func_name \notin DOMAIN function_code
         THEN [found |-> FALSE, error |-> <<"not found in the executed code", func_name>>]
         ELSE [found |-> TRUE, kind |-> function_code[func_name]]

\* the value a call of the function returns when it does not raise
ReturnValue(func_name) ==
    IF func_name = "g" THEN [type |-> "str", val |-> "g"]
    ELSE [type |-> "dict", val |-> func_name]

\* json.dumps(result) if isinstance(result, (dict, list)) else str(result)
ToolContent(result) ==
    IF result.type \in {"dict", "list"}
    THEN <<"json", result.val>> ELSE <<"str", result.val>>

\* a dict or list that json.dumps rejects (it holds a set, a datetime, ...)
NotJson == "set()"

\* a value of the kind the function returns that json.dumps rejects
UnencodableValue(func_name) ==
    [type |-> ReturnValue(func_name).type, val |-> NotJson]

\* the message of the exception a failing implementation raises
RuntimeError == <<"boom">>

(***************************************************************************)
(* The language-model gateway (litellm.acompletion): an external call that *)
(* fails or returns one assistant message with a list of tool calls, each  *)
(* naming one of the tools it was given.                                   *)
(***************************************************************************)
CallIds == <<"a", "b", "c", "d">>

Seqs(S, n) == UNION {[1..k -> S] : k \in 0..n}

ToolCall(i, name, arguments) ==
    [id |-> CallIds[i], function |-> [name |-> name, arguments |-> arguments]]

\* arguments: a JSON object, or text that json.loads rejects
Arguments == {"{}", "{"}

\* the tool_calls lists of at most n calls a response may carry
ToolCallLists(tools, n) ==
    {[i \in 1..Len(p) |-> ToolCall(i, p[i][1], p[i][2])] :
        p \in Seqs({tools[j].function.name : j \in 1..Len(tools)} \X Arguments, n)}


(***************************************************************************)
(* The state of one Run and of the audit tables it writes.                 *)
(***************************************************************************)
VARIABLES
    workspace,             \* Run.workspace.data, as returned by load
    db,                    \* self.db and self.workspace.db_workspace
    pc,                    \* where the coroutine Run.execute stands
    current_step,          \* the cursor of the while loop of execute
    conversation_history,  \* Run.conversation_history
    results,               \* Run.results
    db_runs,               \* rows of DBRun; self.db_run is the last one
    db_steps,              \* rows of DBRunStep; current_db_step is the last
    db_calls,              \* rows of DBRunFunctionCall
    conversation,          \* _execute_step: the messages sent to the gateway
    tools,                 \* _execute_step: the tools array
    tool_calls,            \* _execute_step: the tool calls of the response
    tasks,                 \* one _execute_function coroutine per tool call
    gather_exc,            \* the first exception set on the gather future
    error,                 \* the exception that left execute
    visited,               \* the step ids _execute_step was called with
    gateway_calls,         \* the calls of litellm.acompletion made so far,
                           \* each with the history at the time of the call
    calls_used,            \* tool calls requested so far
    dispatcher,            \* the generator of executor.py that is run, if any
    yielded,               \* the triples that generator has yielded so far
    runs,                  \* the Run objects made by Workspace.run, if any
    heap,                  \* the list and dict objects those Runs refer to
    argument,              \* the argument a function is applied to on its own
    returned               \* what the functions applied to it returned

vars == <<workspace, db, pc, current_step, conversation_history, results,
          db_runs, db_steps, db_calls, conversation, tools, tool_calls,
          tasks, gather_exc, error, visited, gateway_calls, calls_used,
          dispatcher, yielded, runs, heap, argument, returned>>

NoException == [kind |-> "none"]
Exception(kind, msg) == [kind |-> kind, msg |-> msg]

Min(a, b) == IF a < b THEN a ELSE b

\* Run.__init__ on a loaded workspace
Init ==
    /\ workspace \in {load(j) : j \in WorkspaceJsons}
    /\ db \in BOOLEAN
    /\ pc = "new"
    /\ current_step = "none"
    /\ conversation_history = <<>>
    /\ results = EmptyDict
    /\ db_runs = <<>>
    /\ db_steps = <<>>
    /\ db_calls = <<>>
    /\ conversation = <<>>
    /\ tools = <<>>
    /\ tool_calls = <<>>
    /\ tasks = <<>>
    /\ gather_exc = NoException
    /\ error = NoException
    /\ visited = <<>>
    /\ gateway_calls = <<>>
    /\ calls_used = 0
    /\ dispatcher = "none"
    /\ yielded = <<>>
    /\ runs = <<>>
    /\ heap = <<>>
    /\ argument = <<>>
    /\ returned = <<>>

\* a sealing that never writes the status
SealLastUnwritten(table, status) == table

\* the last row of a table gets its final status
SealLast(table, status) ==
    IF Len(table) = 0 THEN table
    ELSE [table EXCEPT ![Len(table)].status = status]

\* the except branch of _execute_step: seal the step record failed, re-raise;
\* execute has no handler, so the exception leaves execute
StepRaises(exc) ==
    /\ db_steps' = SealLast(db_steps, "failed")
    /\ pc' = "raised"
    /\ error' = exc

\* Run.execute up to the while loop
Execute ==
    /\ pc = "new"
    /\ db_runs' = IF db THEN Append(db_runs, [status |-> "running",
                                             results |-> EmptyDict])
                  ELSE db_runs
    /\ IF Len(workspace.steps) = 0
       THEN /\ pc' = "raised"
            /\ error' = Exception("config", <<"No steps defined in workspace">>)
            /\ UNCHANGED current_step
       ELSE /\ pc' = "loop"
            /\ current_step' = workspace.steps[1].id
            /\ UNCHANGED error
    /\ UNCHANGED <<workspace, db, conversation_history, results, db_steps,
                   db_calls, conversation, tools, tool_calls, tasks,
                   gather_exc, visited, gateway_calls, calls_used>>
    /\ UNCHANGED <<dispatcher, yielded, runs, heap, argument, returned>>

\* prepare_conversation / the "Prepare conversation" block of _execute_step
prepare_conversation(step_details, history) ==
    IF Get(step_details, "passConversationToNextStep", FALSE) /\ Len(history) > 0
    THEN history
    ELSE Get(step_details, "chat", <<>>)

\* the schema with one more parameter, as the loop body of
\* Run._convert_parameters_to_schema adds it (param.get gives None for a
\* missing key)
RunAddParameter(schema, param) ==
    LET param_name == Get(param, "name", "None")
        param_type == Get(param, "type", "None")
        param_description == Get(param, "description", "")
    IN [schema EXCEPT
           !.properties = Put(@, param_name,
                              [type |-> param_type, description |-> param_description]),
           !.required = Append(@, param_name)]

\* the same for convert_parameters_to_schema of llm/client.py
ClientAddParameter(schema, param) ==
    LET param_name == Get(param, "name", "None")
        param_type == Get(param, "type", "None")
        param_description == Get(param, "description", "")
    IN [schema EXCEPT
           !.properties = Put(@, param_name,
               IF param_type = "array"
               THEN [type |-> "array", description |-> param_description,
                     items |-> [type |-> "string"]]
               ELSE [type |-> param_type, description |-> param_description]),
           !.required = Append(@, param_name)]

EmptySchema == [type |-> "object", properties |-> EmptyDict, required |-> <<>>]

RECURSIVE RunSchemaFrom(_, _, _)
RunSchemaFrom(schema, parameters, i) ==
    IF i > Len(parameters) THEN schema
    ELSE RunSchemaFrom(RunAddParameter(schema, parameters[i]), parameters, i + 1)

RECURSIVE ClientSchemaFrom(_, _, _)
ClientSchemaFrom(schema, parameters, i) ==
    IF i > Len(parameters) THEN schema
    ELSE ClientSchemaFrom(ClientAddParameter(schema, parameters[i]), parameters, i + 1)

\* Run._convert_parameters_to_schema
Run_convert_parameters_to_schema(parameters) ==
    RunSchemaFrom(EmptySchema, parameters, 1)

\* client.convert_parameters_to_schema
convert_parameters_to_schema(parameters) ==
    ClientSchemaFrom(EmptySchema, parameters, 1)

\* the "Build tools array" block of _execute_step
RECURSIVE BuildTools(_, _, _)
BuildTools(funcs, function_details, i) ==
    IF i > Len(funcs) THEN <<>>
    ELSE LET func_details == Get(function_details, funcs[i], EmptyDict) IN
         (IF Truthy(func_details)
          THEN <<[type |-> "function",
                  function |-> [name |-> funcs[i],
                                description |-> Get(func_details, "description", ""),
                                parameters |-> Run_convert_parameters_to_schema(
                                    Get(func_details, "parameters", <<>>))]]>>
          ELSE <<>>) \o BuildTools(funcs, function_details, i + 1)

\* _execute_step from its entry to the call of litellm.acompletion
BeginStep ==
    /\ pc = "loop"
    /\ current_step # "-"
    /\ Len(visited) < MaxStepExecs
    /\ LET step_details == Get(workspace.step_details, current_step, EmptyDict)
           msgs == prepare_conversation(step_details, conversation_history)
           tls == BuildTools(Get(step_details, "function", <<>>),
                             workspace.function_details, 1)
       IN /\ db_steps' = IF Len(db_runs) > 0
                         THEN Append(db_steps, [step_name |-> current_step,
                                                status |-> "running"])
                         ELSE db_steps
          /\ conversation' = msgs
          /\ tools' = tls
          /\ gateway_calls' = Append(gateway_calls,
                 [step |-> Len(visited) + 1,
                  model |-> Get(step_details, "model", "gpt-4"),
                  messages |-> msgs, tools |-> tls,
                  history |-> conversation_history])
    /\ visited' = Append(visited, current_step)
    /\ tool_calls' = <<>>
    /\ tasks' = <<>>
    /\ gather_exc' = NoException
    /\ pc' = "llm"
    /\ UNCHANGED <<workspace, db, current_step, conversation_history, results,
                   db_runs, db_calls, error, calls_used>>
    /\ UNCHANGED <<dispatcher, yielded, runs, heap, argument, returned>>

\* litellm.acompletion raises
GatewayFails ==
    /\ pc = "llm"
    /\ StepRaises(Exception("gateway", <<"gateway error">>))
    /\ UNCHANGED <<workspace, db, current_step, conversation_history, results,
                   db_runs, db_calls, conversation, tools, tool_calls, tasks,
                   gather_exc, visited, gateway_calls, calls_used>>
    /\ UNCHANGED <<dispatcher, yielded, runs, heap, argument, returned>>

\* a parse that accepts every arguments string
ArgumentsTakenAsParsed(call) == TRUE

\* json.loads of the arguments of a tool call succeeds
ArgumentsParse(call) == call.function.arguments = "{}"

\* Python lists are objects.  `conversation` is the list object of the
\* step's 'chat' template itself unless it is the copy of the history (line
\* 114) or the default [] of .get (line 116); an append to it would change
\* the template of the workspace.
ConversationIsTemplate(step_details) ==
    /\ ~(Get(step_details, "passConversationToNextStep", FALSE)
          /\ Len(conversation_history) > 0)
    /\ "chat" \in DOMAIN step_details

\* an append of the response to the list that was sent to the gateway
AppendToConversation == "conversation"

\* line 182: the list the assistant message is appended to
AppendTarget == "conversation_history"

\* the append of the assistant message, to the list AppendTarget names
AppendAssistant(step_details, message) ==
    IF AppendTarget = "conversation_history"
    THEN /\ conversation_history' = Append(conversation_history, message)
         /\ UNCHANGED <<conversation, workspace>>
    ELSE /\ conversation' = Append(conversation, message)
         /\ workspace' =
                IF ConversationIsTemplate(step_details)
                THEN [workspace EXCEPT
                         !.step_details[current_step].chat = Append(@, message)]
                ELSE workspace
         /\ UNCHANGED conversation_history

\* litellm.acompletion returns; _execute_step up to its next await
GatewayReturns ==
    /\ pc = "llm"
    /\ \E tc \in ToolCallLists(tools, Min(MaxBatch, MaxCalls - calls_used)) :
        LET step_details == Get(workspace.step_details, current_step, EmptyDict)
            parallel == Get(step_details, "runFunctionsInParallel", FALSE)
        IN /\ AppendAssistant(step_details,
                              [role |-> "assistant", content |-> "reply"])
           /\ tool_calls' = tc
           /\ calls_used' = calls_used + Len(tc)
           /\ tasks' = [i \in 1..Len(tc) |->
                         [state |-> "created", rec |-> 0, exc |-> NoException]]
           /\ IF Len(tc) = 0
              THEN pc' = "seal" /\ UNCHANGED <<db_steps, error>>
              ELSE IF parallel
              THEN IF \E i \in 1..Len(tc) : ~ArgumentsParse(tc[i])
                   THEN StepRaises(Exception("json", <<"JSONDecodeError">>))
                   ELSE pc' = "gather" /\ UNCHANGED <<db_steps, error>>
              ELSE pc' = "seq" /\ UNCHANGED <<db_steps, error>>
    /\ UNCHANGED <<db, current_step, results, db_runs, db_calls,
                   tools, gather_exc, visited, gateway_calls>>
    /\ UNCHANGED <<dispatcher, yielded, runs, heap, argument, returned>>


(***************************************************************************)
(* Run._execute_function, one coroutine per tool call.  A coroutine runs   *)
(* from its start to its first suspension without interruption; it can     *)
(* only be suspended inside the awaited call of an asynchronous function.  *)
(***************************************************************************)
\* str(result), as stored in the function-call record
Str(result) == <<"str", result.type, result.val>>

\* the function-call row created at the start of _execute_function
NewCallRow(func_name) ==
    [run_step |-> Len(db_steps), function_name |-> func_name,
     status |-> "running", result |-> <<>>, seals |-> 0]

\* the rows after the create block; rec is the row of this call (0: none)
CallRows(func_name) ==
    IF Len(db_steps) > 0 THEN Append(db_calls, NewCallRow(func_name)) ELSE db_calls

SealCall(rows, rec, status, result) ==
    IF rec = 0 THEN rows
    ELSE [rows EXCEPT ![rec].status = status, ![rec].result = result,
                      ![rec].seals = @ + 1]

\* the tool message appended to the conversation history
ToolMessage(call, result) ==
    [role |-> "tool", tool_call_id |-> call.id, name |-> call.function.name,
     content |-> ToolContent(result)]

\* lines 295-322: the function returned
FunctionReturns(i, rows, rec) ==
    LET func_name == tool_calls[i].function.name
        result == ReturnValue(func_name)
    IN /\ results' = Put(results, func_name, result)
       /\ db_calls' = SealCall(rows, rec, "completed", Str(result))
       /\ conversation_history' =
              Append(conversation_history, ToolMessage(tool_calls[i], result))
       /\ tasks' = [tasks EXCEPT ![i].state = "done", ![i].rec = rec]
       /\ UNCHANGED <<pc, db_steps, error, gather_exc>>

\* lines 324-333: resolution or the function raised; the call record is
\* sealed failed and the exception is re-raised.  Awaited directly
\* (sequential policy) it reaches _execute_step at once; as a task of
\* asyncio.gather it is set on the gather future.
FunctionRaises(i, rows, rec, exc) ==
    /\ db_calls' = SealCall(rows, rec, "failed", exc.msg)
    /\ tasks' = [tasks EXCEPT ![i].state = "failed", ![i].rec = rec, ![i].exc = exc]
    /\ UNCHANGED <<results, conversation_history>>
    /\ IF pc = "seq"
       THEN StepRaises(exc) /\ UNCHANGED gather_exc
       ELSE /\ gather_exc' = IF gather_exc = NoException THEN exc ELSE gather_exc
            /\ UNCHANGED <<pc, db_steps, error>>

\* lines 295-303, 319 and 324-333: the function returned a dict or list that
\* json.dumps rejects.  The result is stored and the call record is sealed
\* completed; then json.dumps raises TypeError inside the try, the except
\* branch writes the same record failed and re-raises.
FunctionReturnsUnencodable(i, rows, rec) ==
    LET func_name == tool_calls[i].function.name
        result == UnencodableValue(func_name)
        exc == Exception("encode", <<"TypeError: not JSON serializable">>)
    IN /\ result.type \in {"dict", "list"}
       /\ results' = Put(results, func_name, result)
       /\ db_calls' = SealCall(SealCall(rows, rec, "completed", Str(result)),
                               rec, "failed", exc.msg)
       /\ tasks' = [tasks EXCEPT ![i].state = "failed", ![i].rec = rec, ![i].exc = exc]
       /\ UNCHANGED conversation_history
       /\ IF pc = "seq"
          THEN StepRaises(exc) /\ UNCHANGED gather_exc
          ELSE /\ gather_exc' = IF gather_exc = NoException THEN exc ELSE gather_exc
               /\ UNCHANGED <<pc, db_steps, error>>

\* the coroutine is suspended inside `await function(**args)`
FunctionSuspends(i, rows, rec) ==
    /\ db_calls' = rows
    /\ tasks' = [tasks EXCEPT ![i].state = "running", ![i].rec = rec]
    /\ UNCHANGED <<results, conversation_history, pc, db_steps, error, gather_exc>>

NoneCreated == \A j \in 1..Len(tasks) : tasks[j].state # "created"

\* the call the dispatch starts next: the first one not yet started
NextToStart(i) ==
    /\ i \in 1..Len(tasks)
    /\ tasks[i].state = "created"
    /\ \A j \in 1..(i - 1) : tasks[j].state # "created"

\* The first run of the coroutine of call i.  Under the sequential policy
\* the arguments are parsed right before and the earlier calls have
\* returned; under asyncio.gather the event loop starts the tasks in the
\* order in which they were passed.
StartFunction(i) ==
    /\ pc \in {"seq", "gather"}
    /\ NextToStart(i)
    /\ pc = "seq" => \A j \in 1..(i - 1) : tasks[j].state = "done"
    /\ LET call == tool_calls[i]
           func_name == call.function.name
           func_details == Get(workspace.function_details, func_name, EmptyDict)
           rows == CallRows(func_name)
           rec == IF Len(db_steps) > 0 THEN Len(rows) ELSE 0
           function == find_function(func_name, func_details)
       IN IF pc = "seq" /\ ~ArgumentsParse(call)
          THEN /\ StepRaises(Exception("json", <<"JSONDecodeError">>))
               /\ UNCHANGED <<results, conversation_history, db_calls, tasks,
                              gather_exc>>
          ELSE IF ~function.found
          THEN FunctionRaises(i, rows, rec, Exception("config", function.error))
          ELSE \/ FunctionReturns(i, rows, rec)
               \/ FunctionReturnsUnencodable(i, rows, rec)
               \/ FunctionRaises(i, rows, rec, Exception("tool", RuntimeError))
               \/ /\ function.kind = "async"
                  /\ FunctionSuspends(i, rows, rec)
    /\ UNCHANGED <<workspace, db, current_step, db_runs, conversation, tools,
                   tool_calls, visited, gateway_calls, calls_used>>
    /\ UNCHANGED <<dispatcher, yielded, runs, heap, argument, returned>>

\* A suspended coroutine is resumed: the awaited function returned or
\* raised.  Tasks of a gather are resumed in any order, after all of them
\* were started, also when _execute_step has already left with the
\* exception of another task (gather does not cancel the others).
ResumeFunction(i) ==
    /\ i \in 1..Len(tasks)
    /\ tasks[i].state = "running"
    /\ pc = "seq" \/ NoneCreated
    /\ \/ FunctionReturns(i, db_calls, tasks[i].rec)
       \/ FunctionReturnsUnencodable(i, db_calls, tasks[i].rec)
       \/ FunctionRaises(i, db_calls, tasks[i].rec, Exception("tool", RuntimeError))
    /\ UNCHANGED <<workspace, db, current_step, db_runs, conversation, tools,
                   tool_calls, visited, gateway_calls, calls_used>>
    /\ UNCHANGED <<dispatcher, yielded, runs, heap, argument, returned>>

\* `await asyncio.gather(*tasks)` raises the first exception of a task
GatherRaises ==
    /\ pc = "gather"
    /\ NoneCreated
    /\ gather_exc # NoException
    /\ StepRaises(gather_exc)
    /\ UNCHANGED <<workspace, db, current_step, conversation_history, results,
                   db_runs, db_calls, conversation, tools, tool_calls, tasks,
                   gather_exc, visited, gateway_calls, calls_used>>
    /\ UNCHANGED <<dispatcher, yielded, runs, heap, argument, returned>>

\* a dispatch that does not wait for a suspended call
CallOverOrSuspended(j) == tasks[j].state \in {"done", "running"}

\* the awaited coroutine of call j (line 207), or task j of the gather
\* (line 199), has returned
CallOver(j) == tasks[j].state = "done"

\* every call of the batch has returned: gather returns, the for loop ends
DispatchReturns ==
    /\ pc \in {"seq", "gather"}
    /\ \A j \in 1..Len(tasks) : CallOver(j)
    /\ pc' = "seal"
    /\ UNCHANGED <<workspace, db, current_step, conversation_history, results,
                   db_runs, db_steps, db_calls, conversation, tools,
                   tool_calls, tasks, gather_exc, error, visited,
                   gateway_calls, calls_used>>
    /\ UNCHANGED <<dispatcher, yielded, runs, heap, argument, returned>>

\* lines 209-217 of _execute_step and 67-69 of execute: the step record is
\* sealed completed and the cursor moves to nextStep
EndStep ==
    /\ pc = "seal"
    /\ db_steps' = SealLast(db_steps, "completed")
    /\ current_step' = Get(Get(workspace.step_details, current_step, EmptyDict),
                           "nextStep", "-")
    /\ pc' = "loop"
    /\ UNCHANGED <<workspace, db, conversation_history, results, db_runs,
                   db_calls, conversation, tools, tool_calls, tasks,
                   gather_exc, error, visited, gateway_calls, calls_used>>
    /\ UNCHANGED <<dispatcher, yielded, runs, heap, argument, returned>>

\* a sealing of the run record that leaves its results as created
SealRunWithoutResults(rows, status, res) ==
    IF ~db \/ Len(rows) = 0 THEN rows
    ELSE [rows EXCEPT ![Len(rows)].status = status]

\* lines 72-77 of execute (update_run_record): status and results are written
\* to self.db_run, which is None unless execute created it (lines 43-53)
SealRun(rows, status, res) ==
    IF ~db \/ Len(rows) = 0 THEN rows
    ELSE [rows EXCEPT ![Len(rows)].status = status, ![Len(rows)].results = res]

\* lines 71-83 of execute: the cursor is "-", the run record is sealed
Complete ==
    /\ pc = "loop"
    /\ current_step = "-"
    /\ db_runs' = SealRun(db_runs, "completed", results)
    /\ pc' = "done"
    /\ UNCHANGED <<workspace, db, current_step, conversation_history, results,
                   db_steps, db_calls, conversation, tools, tool_calls, tasks,
                   gather_exc, error, visited, gateway_calls, calls_used>>
    /\ UNCHANGED <<dispatcher, yielded, runs, heap, argument, returned>>

\* The task running execute is cancelled while it is suspended in the
\* gateway call, in asyncio.gather or in the awaited call of a function.
\* CancelledError is not an Exception: no except block of run.py catches
\* it and no record is written.  A cancelled gather cancels its tasks.
Cancel ==
    /\ pc \in {"llm", "gather", "seq"}
    /\ pc = "seq" => \E i \in 1..Len(tasks) : tasks[i].state = "running"
    /\ pc = "gather" => gather_exc = NoException
    /\ tasks' = [i \in 1..Len(tasks) |->
                    IF tasks[i].state \in {"created", "running"}
                    THEN [tasks[i] EXCEPT !.state = "cancelled"]
                    ELSE tasks[i]]
    /\ pc' = "cancelled"
    /\ error' = Exception("cancelled", <<"CancelledError">>)
    /\ UNCHANGED <<workspace, db, current_step, conversation_history, results,
                   db_runs, db_steps, db_calls, conversation, tools,
                   tool_calls, gather_exc, visited, gateway_calls, calls_used>>
    /\ UNCHANGED <<dispatcher, yielded, runs, heap, argument, returned>>

Next ==
    \/ Execute
    \/ BeginStep
    \/ GatewayFails
    \/ GatewayReturns
    \/ \E i \in 1..MaxBatch : StartFunction(i)
    \/ \E i \in 1..MaxBatch : ResumeFunction(i)
    \/ GatherRaises
    \/ DispatchReturns
    \/ EndStep
    \/ Complete
    \/ Cancel

Spec == Init /\ [][Next]_vars


(***************************************************************************)
(* Notions the properties below are stated with.                           *)
(***************************************************************************)
\* the details of the step that is being, or was last, executed
LastStepDetails ==
    IF Len(visited) = 0 THEN EmptyDict
    ELSE Get(workspace.step_details, visited[Len(visited)], EmptyDict)

ParallelPolicy == Get(LastStepDetails, "runFunctionsInParallel", FALSE)

\* execute has returned or raised
Ended == pc \in {"done", "raised"}

\* index of the last assistant message of the history (0: none)
LastAssistant ==
    LET idx == {k \in 1..Len(conversation_history) :
                   conversation_history[k].role = "assistant"}
    IN IF idx = {} THEN 0 ELSE CHOOSE k \in idx : \A m \in idx : m <= k

\* the call ids of the tool messages appended for the current batch
BatchToolIds ==
    [k \in 1..(Len(conversation_history) - LastAssistant) |->
        conversation_history[LastAssistant + k].tool_call_id]

\* position of a call id in the request
RequestIndex(id) == CHOOSE i \in 1..Len(tool_calls) : tool_calls[i].id = id

\* number of gateway calls made in the k-th step execution
GatewayCallsOf(k) ==
    Cardinality({n \in 1..Len(gateway_calls) : gateway_calls[n].step = k})

\* the run record, when there is one
HasRunRecord == Len(db_runs) > 0
RunRecord == db_runs[Len(db_runs)]

(***************************************************************************)
(* C1.  Under the parallel policy the tool messages of a batch are in the  *)
(* conversation in the request order of the calls, whatever the order in   *)
(* which the calls complete.  The code appends in completion order.        *)
(***************************************************************************)
C1_ToolMessagesInRequestOrder ==
    ParallelPolicy =>
        \A k1, k2 \in 1..Len(BatchToolIds) :
            k1 < k2 => RequestIndex(BatchToolIds[k1]) < RequestIndex(BatchToolIds[k2])

(***************************************************************************)
(* C2.  A step whose model response requests a tool call ends completed    *)
(* only after the cap of 5 gateway calls of that step.  The code calls     *)
(* the gateway once per step.                                              *)
(***************************************************************************)
C2_IterationCapFiveGatewayCalls ==
    (pc = "seal" /\ Len(tool_calls) > 0) => GatewayCallsOf(Len(visited)) = 5

(***************************************************************************)
(* C3.  A tool call whose resolved implementation raised has the results   *)
(* entry {"error": message}, and its exception does not leave the          *)
(* dispatch: it neither fails the step nor leaves execute.                 *)
(***************************************************************************)
ErrorOutcome(msg) == [type |-> "dict", val |-> <<"error", msg>>]

C3_ToolErrorContained ==
    /\ \A i \in 1..Len(tasks) :
          (tasks[i].state = "failed" /\ tasks[i].exc.kind = "tool") =>
              /\ tool_calls[i].function.name \in DOMAIN results
              /\ results[tool_calls[i].function.name] = ErrorOutcome(tasks[i].exc.msg)
    /\ gather_exc.kind # "tool"
    /\ error.kind # "tool"

(***************************************************************************)
(* C4.  A run whose model requested a function that is not registered and  *)
(* has no inline implementation ends with the run record failed.           *)
(***************************************************************************)
UnresolvedFunction(exc) ==
    exc.kind = "config" /\ exc.msg[1] = "not found and no code provided"

C4_UnresolvedFunctionFailsRun ==
    (pc = "raised" /\ UnresolvedFunction(error) /\ HasRunRecord) =>
        RunRecord.status = "failed"

(***************************************************************************)
(* C5.  The step loop executes every step id at most once.                 *)
(***************************************************************************)
C5_EachStepAtMostOnce ==
    \A i, j \in 1..Len(visited) : i < j => visited[i] # visited[j]

(***************************************************************************)
(* C6.  A workspace a Run was started on has a valid step graph: every     *)
(* nextStep is a known step id or "-", and the chain has no cycle.         *)
(***************************************************************************)
\* from step s the sentinel is reached within n defined steps
RECURSIVE ReachesSentinel(_, _, _)
ReachesSentinel(step_details, s, n) ==
    IF s = "-" THEN TRUE
    ELSE IF s \notin DOMAIN step_details \/ n = 0 THEN FALSE
    ELSE ReachesSentinel(step_details, Get(step_details[s], "nextStep", "-"), n - 1)

GraphValid(data) ==
    \A s \in DOMAIN data.step_details :
        ReachesSentinel(data.step_details, s, Cardinality(DOMAIN data.step_details))

C6_LoadedGraphValid == pc # "new" => GraphValid(workspace)

(***************************************************************************)
(* C7.  In a two-step workspace whose first step sets                      *)
(* passConversationToNextStep, the messages sent to the gateway for the    *)
(* second step are the first step's messages followed by the assistant     *)
(* and tool messages appended during the first step.                       *)
(***************************************************************************)
FirstStepPasses ==
    /\ Len(visited) >= 2
    /\ visited[1] # visited[2]
    /\ Get(Get(workspace.step_details, visited[1], EmptyDict),
           "passConversationToNextStep", FALSE)

C7_SecondStepStartsFromFirstStepsConversation ==
    FirstStepPasses =>
        gateway_calls[2].messages = gateway_calls[1].messages \o gateway_calls[2].history


(***************************************************************************)
(* C8.  A step whose assistant message requests no tool call makes exactly *)
(* one gateway call and succeeds; a run of a one-step workspace without    *)
(* functions, when the gateway answers, completes with empty results and   *)
(* exactly one gateway call.                                               *)
(***************************************************************************)
\* the last response carried no tool call and its step has not been left
\* for the next one
NoToolCallsRequested ==
    /\ Len(visited) > 0
    /\ pc \in {"seal", "loop", "done"}
    /\ Len(tool_calls) = 0

OneStepNoFunctions ==
    /\ Len(workspace.steps) > 0
    /\ LET step_details == Get(workspace.step_details, workspace.steps[1].id, EmptyDict)
       IN /\ Get(step_details, "nextStep", "-") = "-"
          /\ Get(step_details, "function", <<>>) = <<>>

C8_NoToolCallsEndsStepAfterOneGatewayCall ==
    /\ NoToolCallsRequested =>
          /\ GatewayCallsOf(Len(visited)) = 1
          /\ error = NoException
          /\ (pc # "seal" /\ Len(db_steps) > 0) =>
                 db_steps[Len(db_steps)].status = "completed"
    /\ (OneStepNoFunctions /\ Ended /\ error.kind # "gateway") =>
          /\ pc = "done"
          /\ DOMAIN results = {}
          /\ Len(gateway_calls) = 1
          /\ HasRunRecord => RunRecord.status = "completed"

C8_Witness ==
    /\ OneStepNoFunctions
    /\ pc = "done"
    /\ db
    /\ Len(gateway_calls) = 1
    /\ db_steps[1].status = "completed"

(***************************************************************************)
(* C9.  Whenever execute has ended, also after a failure of a tool call,  *)
(* the caller has a terminal status and the results, and the exception of  *)
(* a tool has not reached the caller.                                      *)
(***************************************************************************)
SomeCallFailed == \E i \in 1..Len(tasks) : tasks[i].state = "failed"

C9_CallerReceivesStatusNotToolException ==
    (Ended /\ SomeCallFailed) =>
        /\ error.kind # "tool"
        /\ HasRunRecord => RunRecord.status \in {"completed", "failed"}

(***************************************************************************)
(* C10.  After a gateway error or a configuration error in a step no       *)
(* further step is executed, the run record is sealed failed with the      *)
(* results recorded so far, and the step record is sealed failed.          *)
(***************************************************************************)
C10_FailureSealsRunRecordWithResults ==
    (pc = "raised" /\ error.kind \in {"gateway", "config"} /\ Len(db_steps) > 0) =>
        /\ db_steps[Len(db_steps)].status = "failed"
        /\ RunRecord.status = "failed"
        /\ RunRecord.results = results


(***************************************************************************)
(* C11.  The run record shows completed exactly when execute has passed    *)
(* the sentinel: then the cursor is "-", every step of the chain from the  *)
(* first step was executed and its record sealed completed, no call of the *)
(* run is unfinished, and the record's results are the run's results.      *)
(***************************************************************************)
\* nextStep of a step id, as execute reads it
NextOf(step) ==
    Get(Get(workspace.step_details, step, EmptyDict), "nextStep", "-")

\* visited is the whole nextStep chain from the first step to the sentinel
ChainExecuted ==
    /\ Len(visited) > 0
    /\ visited[1] = workspace.steps[1].id
    /\ \A i \in 1..(Len(visited) - 1) : visited[i + 1] = NextOf(visited[i])
    /\ NextOf(visited[Len(visited)]) = "-"

C11_CompletedExactlyAtSentinel ==
    HasRunRecord =>
        /\ (RunRecord.status = "completed") <=> (pc = "done")
        /\ RunRecord.status = "completed" =>
              /\ current_step = "-"
              /\ ChainExecuted
              /\ Len(db_steps) = Len(visited)
              /\ \A k \in 1..Len(db_steps) : db_steps[k].status = "completed"
              /\ \A i \in 1..Len(tasks) : tasks[i].state = "done"
              /\ RunRecord.results = results

C11_Witness ==
    /\ HasRunRecord
    /\ RunRecord.status = "completed"
    /\ Len(visited) = 2
    /\ DOMAIN RunRecord.results # {}


(***************************************************************************)
(* C12.  Under the sequential policy a call is started only after the      *)
(* calls before it have finished, and after a call has failed the later    *)
(* calls of the batch are run all the same.                                *)
(***************************************************************************)
Started(i) == tasks[i].state \in {"running", "done", "failed"}
Finished(i) == tasks[i].state \in {"done", "failed"}

C12_SequentialCallsAllRun ==
    (~ParallelPolicy /\ pc # "cancelled") =>
        /\ \A i, j \in 1..Len(tasks) : (j < i /\ Started(i)) => Finished(j)
        /\ (pc = "raised" /\ \E i \in 1..Len(tasks) : tasks[i].exc.kind = "tool") =>
               \A j \in 1..Len(tasks) : Started(j)

(***************************************************************************)
(* C14.  Under the parallel policy, once the record of a step is sealed    *)
(* (the step was left, completed or failed) no call of its batch is still  *)
(* in progress.                                                            *)
(***************************************************************************)
StepLeft == Len(visited) > 0 /\ pc \in {"loop", "done", "raised"}

C14_NoCallOutlivesItsStep ==
    (ParallelPolicy /\ StepLeft) =>
        \A i \in 1..Len(tasks) : tasks[i].state # "running"

(***************************************************************************)
(* C16.  A call whose resolved implementation raised has its function-call *)
(* record sealed failed with the error text, and the step is not aborted   *)
(* by it.                                                                  *)
(***************************************************************************)
C16_RaisingCallSealedFailedStepGoesOn ==
    \A i \in 1..Len(tasks) :
        tasks[i].exc.kind = "tool" =>
            /\ tasks[i].rec > 0 =>
                  /\ db_calls[tasks[i].rec].status = "failed"
                  /\ db_calls[tasks[i].rec].result = tasks[i].exc.msg
            /\ ~(pc = "raised" /\ error = tasks[i].exc)

(***************************************************************************)
(* C17.  No step of a run changes the loaded workspace: step definitions,  *)
(* chat templates and function catalog stay as load produced them.         *)
(***************************************************************************)
C17_WorkspaceNeverChanges == [][workspace' = workspace]_vars

\* a run that sent a chat template to the gateway and appended to its history
C17_Witness ==
    /\ pc = "done"
    /\ Len(gateway_calls) > 0
    /\ "chat" \in DOMAIN LastStepDetails
    /\ gateway_calls[Len(gateway_calls)].messages = LastStepDetails.chat
    /\ Len(conversation_history) >= 2

(***************************************************************************)
(* C19.  A run that was cancelled at a suspension point has its step and   *)
(* run records sealed cancelled and leaves no record running.              *)
(***************************************************************************)
C19_CancelledRunSealedCancelled ==
    pc = "cancelled" =>
        /\ HasRunRecord => RunRecord.status = "cancelled"
        /\ Len(db_steps) > 0 => db_steps[Len(db_steps)].status = "cancelled"
        /\ \A k \in 1..Len(db_calls) : db_calls[k].status # "running"

(***************************************************************************)
(* C20.  No step that was entered (and had its tools array built)          *)
(* references a function that the function catalog does not define.        *)
(***************************************************************************)
UndefinedFunctions(step) ==
    LET funcs == Get(Get(workspace.step_details, step, EmptyDict), "function", <<>>)
    IN {funcs[k] : k \in 1..Len(funcs)} \ DOMAIN workspace.function_details

C20_NoToolsBuiltForUndefinedFunction ==
    \A n \in 1..Len(visited) : UndefinedFunctions(visited[n]) = {}


(***************************************************************************)
(* The generators of function_execution/executor.py:                       *)
(* execute_functions_parallel and execute_functions_sequential, with       *)
(* execute_function and find_function.  Run does not call them; they are   *)
(* run here on their own, on a batch of calls and a function catalog.  A   *)
(* generator advances when its consumer asks for the next triple.          *)
(***************************************************************************)
\* names bound in the module namespace of executor.py
ExecutorGlobalNames ==
    {"json", "time", "asyncio", "importlib", "inspect", "Dict", "List", "Any",
     "Optional", "datetime", "Langfuse", "execute_function",
     "execute_functions_parallel", "execute_functions_sequential",
     "find_function"}

\* function_details: f and g as in the workspace, and w, whose code defines
\* another name
ExecutorFunctionDetails ==
    [n \in {"f", "g", "w"} |->
        IF n = "w" THEN [description |-> "w", code |-> [x |-> "sync"]]
        ELSE FuncDetail(n)]

\* the names a call may carry; h is not in function_details
ExecutorNames == {"f", "g", "h", "w"}

\* function_calls: the batches of at most n calls
FunctionCallLists(n) ==
    {[i \in 1..Len(p) |-> ToolCall(i, p[i][1], p[i][2])] :
        p \in Seqs(ExecutorNames \X Arguments, n)}

\* find_function of executor.py: the function found, or the ValueError
executor_find_function(func_name, func_details) ==
    IF func_name \in ExecutorGlobalNames
    THEN [found |-> TRUE, kind |-> "sync"]
    ELSE IF func_name \in ImportableNames
    THEN [found |-> TRUE, kind |-> "sync"]
    ELSE LET function_code == Get(func_details, "code", EmptyDict) IN
         IF ~Truthy(function_code)
         THEN [found |-> FALSE, error |-> <<"not found and no code provided", func_name>>]
         ELSE IF func_name \notin DOMAIN function_code
         THEN [found |-> FALSE, error |-> <<"not found in the executed code", func_name>>]
         ELSE [found |-> TRUE, kind |-> function_code[func_name]]

ParallelGenerator == "execute_functions_parallel"
SequentialGenerator == "execute_functions_sequential"

\* a generator is called with a batch; db and db_step are both given or not
DispatcherInit ==
    /\ dispatcher \in {ParallelGenerator, SequentialGenerator}
    /\ workspace = WorkspaceData(<<>>, <<>>, EmptyDict, ExecutorFunctionDetails)
    /\ db \in BOOLEAN
    /\ db_steps = IF db THEN <<[status |-> "running", step_name |-> "s1"]>>
                  ELSE <<>>
    /\ tool_calls \in FunctionCallLists(MaxBatch)
    /\ tasks = [i \in 1..Len(tool_calls) |->
                   [state |-> "pending", rec |-> 0, exc |-> NoException]]
    /\ pc = IF dispatcher = ParallelGenerator THEN "start" ELSE "for"
    /\ results = EmptyDict
    /\ yielded = <<>>
    /\ db_calls = <<>>
    /\ error = NoException
    /\ current_step = "none"
    /\ conversation_history = <<>>
    /\ db_runs = <<>>
    /\ conversation = <<>>
    /\ tools = <<>>
    /\ gather_exc = NoException
    /\ visited = <<>>
    /\ gateway_calls = <<>>
    /\ calls_used = 0
    /\ runs = <<>>
    /\ heap = <<>>
    /\ argument = <<>>
    /\ returned = <<>>

\* the variables no generator touches
RunOnly ==
    <<workspace, db, current_step, conversation_history, db_runs, db_steps,
      conversation, tools, tool_calls, gather_exc, visited, gateway_calls,
      calls_used, dispatcher, runs, heap, argument, returned>>

Triple(call, outcome) ==
    [call_id |-> call.id, function_name |-> call.function.name,
     outcome |-> outcome]

\* json.loads of the arguments raises outside every try: the exception
\* leaves the generator
GeneratorRaises(exc) ==
    /\ pc' = "raised"
    /\ error' = exc

\* execute_function lines 67-83, then lines 128-129 (158-159): the result is
\* stored and the triple is yielded
ExecutorReturns(i, rows, rec) ==
    LET func_name == tool_calls[i].function.name
        result == ReturnValue(func_name)
    IN /\ db_calls' = SealCall(rows, rec, "completed", Str(result))
       /\ results' = Put(results, func_name, result)
       /\ yielded' = Append(yielded, Triple(tool_calls[i], result))
       /\ tasks' = [tasks EXCEPT ![i].state = "done", ![i].rec = rec]
       /\ UNCHANGED <<pc, error>>

\* execute_function lines 85-96 seal the record failed and re-raise; lines
\* 130-131 (160-161) catch every Exception and yield {"error": str(e)}
ExecutorRaises(i, rows, rec, exc) ==
    /\ db_calls' = SealCall(rows, rec, "failed", exc.msg)
    /\ yielded' = Append(yielded, Triple(tool_calls[i], ErrorOutcome(exc.msg)))
    /\ tasks' = [tasks EXCEPT ![i].state = "failed", ![i].rec = rec, ![i].exc = exc]
    /\ UNCHANGED <<results, pc, error>>

\* execute_function is suspended inside `await function(**args)`
ExecutorSuspends(i, rows, rec) ==
    /\ db_calls' = rows
    /\ tasks' = [tasks EXCEPT ![i].state = "running", ![i].rec = rec]
    /\ UNCHANGED <<results, yielded, pc, error>>

\* lines 112-122 of execute_functions_parallel: the arguments of every call
\* are parsed and one coroutine object per call is created; none is started
CreateTasks ==
    /\ dispatcher = ParallelGenerator
    /\ pc = "start"
    /\ IF \A i \in 1..Len(tool_calls) : ArgumentsParse(tool_calls[i])
       THEN /\ pc' = "for"
            /\ tasks' = [i \in 1..Len(tasks) |-> [tasks[i] EXCEPT !.state = "created"]]
            /\ UNCHANGED error
       ELSE /\ GeneratorRaises(Exception("json", <<"JSONDecodeError">>))
            /\ tasks' = [i \in 1..Len(tasks) |->
                  IF \A j \in 1..i : ArgumentsParse(tool_calls[j])
                  THEN [tasks[i] EXCEPT !.state = "created"] ELSE tasks[i]]
    /\ UNCHANGED <<results, yielded, db_calls>>
    /\ UNCHANGED RunOnly

\* `await task` (line 127) or `await execute_function(...)` (line 157) for
\* call i: execute_function runs from its start to its first suspension.
\* Both loops reach call i only after the triple of call i - 1 was yielded.
\* An asynchronous function that ends without having been suspended leaves
\* the state of one that is suspended and resumed at once.
AwaitCall(i) ==
    /\ pc = "for"
    /\ i \in 1..Len(tasks)
    /\ tasks[i].state = IF dispatcher = ParallelGenerator THEN "created" ELSE "pending"
    /\ \A j \in 1..(i - 1) : tasks[j].state \in {"done", "failed"}
    /\ LET call == tool_calls[i]
           func_name == call.function.name
           func_details == Get(workspace.function_details, func_name, EmptyDict)
           rows == CallRows(func_name)
           rec == IF Len(db_steps) > 0 THEN Len(rows) ELSE 0
           function == executor_find_function(func_name, func_details)
       IN IF dispatcher = SequentialGenerator /\ ~ArgumentsParse(call)
          THEN /\ GeneratorRaises(Exception("json", <<"JSONDecodeError">>))
               /\ UNCHANGED <<results, yielded, db_calls, tasks>>
          ELSE IF ~function.found
          THEN ExecutorRaises(i, rows, rec, Exception("config", function.error))
          ELSE IF function.kind = "async"
          THEN ExecutorSuspends(i, rows, rec)
          ELSE \/ ExecutorReturns(i, rows, rec)
               \/ ExecutorRaises(i, rows, rec, Exception("tool", RuntimeError))
    /\ UNCHANGED RunOnly

\* the awaited asynchronous function of call i returned or raised
CallResumes(i) ==
    /\ pc = "for"
    /\ i \in 1..Len(tasks)
    /\ tasks[i].state = "running"
    /\ \/ ExecutorReturns(i, db_calls, tasks[i].rec)
       \/ ExecutorRaises(i, db_calls, tasks[i].rec, Exception("tool", RuntimeError))
    /\ UNCHANGED RunOnly

\* the for loop is over: the generator is exhausted
GeneratorEnds ==
    /\ pc = "for"
    /\ \A i \in 1..Len(tasks) : tasks[i].state \in {"done", "failed"}
    /\ pc' = "end"
    /\ UNCHANGED <<results, yielded, db_calls, tasks, error>>
    /\ UNCHANGED RunOnly

DispatcherNext ==
    \/ CreateTasks
    \/ \E i \in 1..MaxBatch : AwaitCall(i)
    \/ \E i \in 1..MaxBatch : CallResumes(i)
    \/ GeneratorEnds

DispatcherSpec == DispatcherInit /\ [][DispatcherNext]_vars

(***************************************************************************)
(* C13.  Under the parallel policy every call of the batch is started      *)
(* before any call in progress is waited for to its end: a call that was   *)
(* in progress finishes only when no call of the batch is still unstarted. *)
(***************************************************************************)
Unstarted(j) == tasks[j].state \in {"pending", "created"}

C13_ParallelCallsAllStartedBeforeOneIsAwaited ==
    [][dispatcher = ParallelGenerator =>
          \A i \in 1..Len(tasks) :
              (tasks[i].state = "running" /\ tasks'[i].state \in {"done", "failed"}) =>
                  \A j \in 1..Len(tasks) : ~Unstarted(j)]_vars

(***************************************************************************)
(* C15.  In the generators of executor.py a call whose function cannot be  *)
(* resolved yields no triple: the exception leaves the generator, and no   *)
(* later call of the batch is run.                                         *)
(***************************************************************************)
C15_ResolutionFailureAbortsDispatch ==
    dispatcher # "none" =>
        \A i \in 1..Len(tasks) :
            tasks[i].exc.kind = "config" =>
                /\ \A k \in 1..Len(yielded) : yielded[k].call_id # tool_calls[i].id
                /\ pc = "raised"
                /\ \A j \in (i + 1)..Len(tasks) : Unstarted(j)


(***************************************************************************)
(* Two Runs of one Workspace, each made by Workspace.run (no database      *)
(* session), executing concurrently on one event loop.  Lists and dicts    *)
(* are objects of a heap and a Run holds references to them, so that two   *)
(* Runs holding the same object would see each other's appends.  A Run is  *)
(* suspended only in `await acompletion` and in the await of an            *)
(* asynchronous function; between two suspensions it runs alone.  Here a   *)
(* response requests at most one call.  What a Run appends or records      *)
(* carries the id of the Run.                                              *)
(***************************************************************************)
RunIds == {1, 2}

\* the list object of the 'chat' template of a step, made by load
TemplateRef(step) == IF step = "s1" THEN 1 ELSE 2

\* a list shared by all Runs, as a class attribute would be
SharedHistoryRef(h) == 3

\* `self.conversation_history = []`: a new list object
NewHistoryRef(h) == Len(h) + 1

\* `self.results = {}`: a new dict object, made after the list
NewResultsRef(h) == Len(h) + 2

NoRun ==
    [pc |-> "none", current_step |-> "none", conversation_history |-> 0,
     results |-> 0, conversation |-> 0, call |-> "none"]

TwoRunsInit ==
    /\ workspace \in
          {load(WorkspaceJson(<<[id |-> "s1"], [id |-> "s2"]>>, <<"f", "g", "h">>,
                              "s2", "-", p1, p2, FALSE)) : p1 \in BOOLEAN, p2 \in BOOLEAN}
    /\ heap = <<Chat("s1"), Chat("s2")>>
    /\ runs = [r \in RunIds |-> NoRun]
    /\ gateway_calls = <<>>
    /\ db = FALSE
    /\ pc = "none"
    /\ current_step = "none"
    /\ conversation_history = <<>>
    /\ results = EmptyDict
    /\ db_runs = <<>>
    /\ db_steps = <<>>
    /\ db_calls = <<>>
    /\ conversation = <<>>
    /\ tools = <<>>
    /\ tool_calls = <<>>
    /\ tasks = <<>>
    /\ gather_exc = NoException
    /\ error = NoException
    /\ visited = <<>>
    /\ calls_used = 0
    /\ dispatcher = "none"
    /\ yielded = <<>>
    /\ argument = <<>>
    /\ returned = <<>>

\* the variables of the single Run and of the generators
SingleRun ==
    <<workspace, db, pc, current_step, conversation_history, results, db_runs,
      db_steps, db_calls, conversation, tools, tool_calls, tasks, gather_exc,
      error, visited, calls_used, dispatcher, yielded, argument, returned>>

\* Workspace.run: Run.__init__ and execute up to the while loop
WorkspaceRun(r) ==
    /\ runs[r].pc = "none"
    /\ heap' = [i \in 1..(Len(heap) + 2) |->
                   IF i <= Len(heap) THEN heap[i]
                   ELSE IF i = Len(heap) + 1 THEN <<>> ELSE EmptyDict]
    /\ runs' = [runs EXCEPT ![r] =
                   [pc |-> "loop", current_step |-> workspace.steps[1].id,
                    conversation_history |-> NewHistoryRef(heap),
                    results |-> NewResultsRef(heap),
                    conversation |-> 0, call |-> "none"]]
    /\ UNCHANGED gateway_calls
    /\ UNCHANGED SingleRun

\* _execute_step of Run r up to `await acompletion`: the conversation is a
\* copy of the history or the template list itself
RunBeginStep(r) ==
    /\ runs[r].pc = "loop"
    /\ runs[r].current_step # "-"
    /\ LET step_details == workspace.step_details[runs[r].current_step]
           history == heap[runs[r].conversation_history]
           copies == Get(step_details, "passConversationToNextStep", FALSE)
                     /\ Len(history) > 0
           ref == IF copies THEN Len(heap) + 1
                  ELSE TemplateRef(runs[r].current_step)
       IN /\ heap' = IF copies THEN Append(heap, history) ELSE heap
          /\ runs' = [runs EXCEPT ![r].pc = "llm", ![r].conversation = ref]
          /\ gateway_calls' = Append(gateway_calls,
                 [run |-> r, step |-> runs[r].current_step,
                  messages |-> heap'[ref]])
    /\ UNCHANGED SingleRun

\* acompletion raised: the exception leaves execute of Run r
RunGatewayFails(r) ==
    /\ runs[r].pc = "llm"
    /\ runs' = [runs EXCEPT ![r].pc = "raised"]
    /\ UNCHANGED <<heap, gateway_calls>>
    /\ UNCHANGED SingleRun

\* the list the assistant and tool messages of Run r are appended to
AppendRef(r) ==
    IF AppendTarget = "conversation_history"
    THEN runs[r].conversation_history ELSE runs[r].conversation

AssistantOf(r) == [role |-> "assistant", content |-> <<"reply", r>>]

\* the value a call of Run r returns
ReturnValueOf(r, func_name) ==
    [type |-> ReturnValue(func_name).type, val |-> <<func_name, r>>]

\* the heap after the call of func_name by Run r returned
Returned(h, r, func_name) ==
    LET result == ReturnValueOf(r, func_name)
        call == ToolCall(1, func_name, "{}")
    IN [h EXCEPT ![runs[r].results] = Put(@, func_name, result),
                 ![AppendRef(r)] = Append(@, ToolMessage(call, result))]

\* the step of Run r is over: the cursor moves to nextStep
StepOver(r) ==
    LET next == Get(workspace.step_details[runs[r].current_step], "nextStep", "-")
    IN [runs[r] EXCEPT !.pc = IF next = "-" THEN "done" ELSE "loop",
                       !.current_step = next, !.call = "none"]

\* the functions of the step that are in the catalog: its tools
ToolNames(step) ==
    LET funcs == Get(workspace.step_details[step], "function", <<>>)
    IN {funcs[k] : k \in 1..Len(funcs)} \cap DOMAIN workspace.function_details

\* acompletion returned to Run r: the assistant message is appended and the
\* requested call, if any, runs to its end or to its first suspension
RunGatewayReturns(r) ==
    /\ runs[r].pc = "llm"
    /\ LET h1 == [heap EXCEPT ![AppendRef(r)] = Append(@, AssistantOf(r))]
       IN \E call \in {"none"} \cup ToolNames(runs[r].current_step) :
            LET function == find_function(call,
                                Get(workspace.function_details, call, EmptyDict))
            IN IF call = "none"
               THEN heap' = h1 /\ runs' = [runs EXCEPT ![r] = StepOver(r)]
               ELSE IF ~function.found
               THEN heap' = h1 /\ runs' = [runs EXCEPT ![r].pc = "raised"]
               ELSE IF function.kind = "async"
               THEN heap' = h1 /\ runs' = [runs EXCEPT ![r].pc = "await", ![r].call = call]
               ELSE \/ heap' = Returned(h1, r, call)
                       /\ runs' = [runs EXCEPT ![r] = StepOver(r)]
                    \/ heap' = h1 /\ runs' = [runs EXCEPT ![r].pc = "raised"]
    /\ UNCHANGED gateway_calls
    /\ UNCHANGED SingleRun

\* the asynchronous function awaited by Run r returned or raised
RunFunctionResumes(r) ==
    /\ runs[r].pc = "await"
    /\ \/ heap' = Returned(heap, r, runs[r].call)
          /\ runs' = [runs EXCEPT ![r] = StepOver(r)]
       \/ heap' = heap /\ runs' = [runs EXCEPT ![r].pc = "raised"]
    /\ UNCHANGED gateway_calls
    /\ UNCHANGED SingleRun

TwoRunsNext ==
    \/ \E r \in RunIds : WorkspaceRun(r)
    \/ \E r \in RunIds : RunBeginStep(r)
    \/ \E r \in RunIds : RunGatewayFails(r)
    \/ \E r \in RunIds : RunGatewayReturns(r)
    \/ \E r \in RunIds : RunFunctionResumes(r)

TwoRunsSpec == TwoRunsInit /\ [][TwoRunsNext]_vars

(***************************************************************************)
(* C18.  Of two Runs on one Workspace, neither has in its conversation     *)
(* history, in a message list it sent to the gateway or in its results a   *)
(* message or value of the other, and they hold different list and dict    *)
(* objects.                                                                *)
(***************************************************************************)
\* the Run a message comes from; 0 for a message of a template
OwnerOf(message) ==
    IF message.role = "assistant" THEN message.content[2]
    ELSE IF message.role = "tool" THEN message.content[2][2]
    ELSE 0

Made(r) == runs[r].pc # "none"

C18_RunsShareNoState ==
    \A r \in DOMAIN runs : \A q \in DOMAIN runs :
        (r # q /\ Made(r)) =>
            /\ \A k \in 1..Len(heap[runs[r].conversation_history]) :
                  OwnerOf(heap[runs[r].conversation_history][k]) # q
            /\ \A n \in DOMAIN heap[runs[r].results] :
                  heap[runs[r].results][n].val[2] # q
            /\ \A k \in 1..Len(gateway_calls) :
                  gateway_calls[k].run = r =>
                      \A m \in 1..Len(gateway_calls[k].messages) :
                          OwnerOf(gateway_calls[k].messages[m]) # q
            /\ Made(q) =>
                  /\ runs[r].conversation_history # runs[q].conversation_history
                  /\ runs[r].results # runs[q].results

\* Run 1 is suspended in a function while Run 2, started after it, has
\* recorded a result and has sent its own history to the gateway
C18_Witness ==
    /\ runs # <<>>
    /\ runs[1].pc = "await"
    /\ Len(heap[runs[1].conversation_history]) > 0
    /\ runs[2].pc = "done"
    /\ runs[1].conversation_history < runs[2].conversation_history
    /\ DOMAIN heap[runs[2].results] # {}
    /\ \E k \in 1..Len(gateway_calls) :
          /\ gateway_calls[k].run = 2
          /\ \E m \in 1..Len(gateway_calls[k].messages) :
                OwnerOf(gateway_calls[k].messages[m]) = 2


(***************************************************************************)
(* C21.  Every tool message of the conversation history is preceded by an  *)
(* assistant message that carries the tool call with the same call id.     *)
(***************************************************************************)
CarriesCall(message, id) ==
    /\ message.role = "assistant"
    /\ "tool_calls" \in DOMAIN message
    /\ \E c \in 1..Len(message.tool_calls) : message.tool_calls[c].id = id

C21_ToolMessageFollowsItsRequest ==
    \A k \in 1..Len(conversation_history) :
        conversation_history[k].role = "tool" =>
            \E j \in 1..(k - 1) :
                CarriesCall(conversation_history[j], conversation_history[k].tool_call_id)

(***************************************************************************)
(* C22.  For every call of the batch whose function returned a value,      *)
(* exactly one tool message with the call id, the function name and the    *)
(* encoded value was appended for the batch, and results has an entry for  *)
(* the function name.                                                      *)
(***************************************************************************)
\* the function of call i returned (a value json.dumps accepts, or not)
FunctionReturned(i) == tasks[i].state = "done" \/ tasks[i].exc.kind = "encode"

\* positions of the tool messages appended for call i of the current batch
MessagesOf(i) ==
    {k \in (LastAssistant + 1)..Len(conversation_history) :
        conversation_history[k].tool_call_id = tool_calls[i].id}

C22_ReturnedValueRecordedAndAppended ==
    \A i \in 1..Len(tasks) :
        FunctionReturned(i) =>
            /\ Cardinality(MessagesOf(i)) = 1
            /\ \A k \in MessagesOf(i) :
                  /\ conversation_history[k].name = tool_calls[i].function.name
                  /\ conversation_history[k].content \in
                        {ToolContent(ReturnValue(tool_calls[i].function.name)),
                         ToolContent(UnencodableValue(tool_calls[i].function.name))}
            /\ tool_calls[i].function.name \in DOMAIN results

(***************************************************************************)
(* C23.  A function-call record is written running when created and its    *)
(* status is written at most once afterwards, to completed or to failed.   *)
(***************************************************************************)
C23_CallRecordSealedAtMostOnce ==
    \A k \in 1..Len(db_calls) :
        /\ db_calls[k].seals <= 1
        /\ db_calls[k].seals = 0 <=> db_calls[k].status = "running"
        /\ db_calls[k].status \in {"running", "completed", "failed"}

(***************************************************************************)
(* C24.  When every call of a batch has returned, the entry of results for *)
(* a function name was written last by the last call in request order that *)
(* names the function.  A call writes results and appends its tool message *)
(* without being suspended in between, so the last writer of a name is the *)
(* call of the last tool message with that name.                           *)
(***************************************************************************)
\* the last call in request order that names the function
LastRequestOf(name) ==
    CHOOSE i \in 1..Len(tool_calls) :
        /\ tool_calls[i].function.name = name
        /\ \A j \in (i + 1)..Len(tool_calls) : tool_calls[j].function.name # name

\* the call id of the last tool message of the batch for the function
LastWriterOf(name) ==
    LET at == {k \in (LastAssistant + 1)..Len(conversation_history) :
                  conversation_history[k].name = name}
    IN conversation_history[CHOOSE k \in at : \A m \in at : m <= k].tool_call_id

BatchReturned ==
    /\ Len(tasks) > 0
    /\ \A i \in 1..Len(tasks) : tasks[i].state = "done"

C24_ResultsLastWriteInRequestOrder ==
    BatchReturned =>
        \A i \in 1..Len(tool_calls) :
            LastWriterOf(tool_calls[i].function.name) =
                tool_calls[LastRequestOf(tool_calls[i].function.name)].id

(***************************************************************************)
(* C25.  Once _execute_step has returned or raised, the record of the step *)
(* is sealed: completed when it returned, failed when it raised; no step   *)
(* record of an earlier step is running.                                   *)
(***************************************************************************)
StepReturned == Len(visited) > 0 /\ pc \in {"loop", "done"}
StepRaised == Len(visited) > 0 /\ pc \in {"raised", "cancelled"}

C25_StepRecordSealedAtExit ==
    Len(db_steps) > 0 =>
        /\ StepReturned => db_steps[Len(db_steps)].status = "completed"
        /\ StepRaised => db_steps[Len(db_steps)].status = "failed"
        /\ \A k \in 1..(Len(db_steps) - 1) : db_steps[k].status # "running"

(***************************************************************************)
(* C26.  A step that is the first one, or whose predecessor does not set   *)
(* passConversationToNextStep, sends its own chat template to the gateway. *)
(***************************************************************************)
PassesOn(step) ==
    Get(Get(workspace.step_details, step, EmptyDict),
        "passConversationToNextStep", FALSE)

TemplateOf(step) ==
    Get(Get(workspace.step_details, step, EmptyDict), "chat", <<>>)

C26_PreviousStepDecidesCarryOver ==
    \A n \in 1..Len(gateway_calls) :
        (n = 1 \/ ~PassesOn(visited[n - 1])) =>
            gateway_calls[n].messages = TemplateOf(visited[n])


(***************************************************************************)
(* C27.  A gateway call of a Run starts only when no gateway call and no   *)
(* tool call of the Run is in progress.                                    *)
(***************************************************************************)
InProgress(i) == tasks[i].state \in {"created", "running"}

C29_NoFirstStepFailsRun ==
    (pc # "new" /\ Len(workspace.steps) = 0) =>
        /\ pc = "raised"
        /\ error.kind # "none"
        /\ Len(visited) = 0
        /\ Len(gateway_calls) = 0
        /\ HasRunRecord => RunRecord.status = "failed"


(***************************************************************************)
(* The two converters of a 'parameters' list to a JSON schema, applied on  *)
(* their own to one parameter list.                                        *)
(***************************************************************************)
\* longest parameter list
MaxParams == 2

ParamNames == {"text", "operations"}
ParamTypes == {"string", "array", "integer"}

\* a parameter: name and type, with or without a description
Parameters ==
    {[name |-> n, type |-> t] : n \in ParamNames, t \in ParamTypes} \cup
    {[name |-> n, type |-> t, description |-> "d"] : n \in ParamNames, t \in ParamTypes}

\* the variables of the Runs and of the generators
NoRunState ==
    <<workspace, db, current_step, conversation_history, results, db_runs,
      db_steps, db_calls, conversation, tools, tool_calls, tasks, gather_exc,
      error, visited, gateway_calls, calls_used, dispatcher, yielded, runs,
      heap>>

\* their values when a function is applied on its own
NoRunInit ==
    /\ workspace = WorkspaceData(<<>>, <<>>, EmptyDict, EmptyDict)
    /\ db = FALSE
    /\ current_step = "none"
    /\ conversation_history = <<>>
    /\ results = EmptyDict
    /\ db_runs = <<>>
    /\ db_steps = <<>>
    /\ db_calls = <<>>
    /\ conversation = <<>>
    /\ tools = <<>>
    /\ tool_calls = <<>>
    /\ tasks = <<>>
    /\ gather_exc = NoException
    /\ error = NoException
    /\ visited = <<>>
    /\ gateway_calls = <<>>
    /\ calls_used = 0
    /\ dispatcher = "none"
    /\ yielded = <<>>
    /\ runs = <<>>
    /\ heap = <<>>

SchemaInit ==
    /\ argument \in Seqs(Parameters, MaxParams)
    /\ returned = EmptyDict
    /\ pc = "schema"
    /\ NoRunInit

\* self._convert_parameters_to_schema(parameters)
ConvertInRun ==
    /\ pc = "schema"
    /\ "run" \notin DOMAIN returned
    /\ returned' = Put(returned, "run", Run_convert_parameters_to_schema(argument))
    /\ UNCHANGED <<pc, argument>>
    /\ UNCHANGED NoRunState

\* convert_parameters_to_schema(parameters) of llm/client.py
ConvertInClient ==
    /\ pc = "schema"
    /\ "client" \notin DOMAIN returned
    /\ returned' = Put(returned, "client", convert_parameters_to_schema(argument))
    /\ UNCHANGED <<pc, argument>>
    /\ UNCHANGED NoRunState

SchemaNext == ConvertInRun \/ ConvertInClient

SchemaSpec == SchemaInit /\ [][SchemaNext]_vars

(***************************************************************************)
(* C28.  For every parameter list the schema built by the Run equals the   *)
(* one built by client.convert_parameters_to_schema: 'required' lists the  *)
(* parameter names in declaration order and every array parameter has      *)
(* items of type string.                                                   *)
(***************************************************************************)
\* the property of the parameter that is declared last under a name
LastDeclared(name) ==
    argument[CHOOSE i \in 1..Len(argument) :
                /\ argument[i].name = name
                /\ \A j \in (i + 1)..Len(argument) : argument[j].name # name]

SchemaAsSpecified(schema) ==
    /\ schema.required = [i \in 1..Len(argument) |-> argument[i].name]
    /\ DOMAIN schema.properties = {argument[i].name : i \in 1..Len(argument)}
    /\ \A n \in DOMAIN schema.properties :
          /\ schema.properties[n].type = LastDeclared(n).type
          /\ LastDeclared(n).type = "array" =>
                /\ "items" \in DOMAIN schema.properties[n]
                /\ schema.properties[n].items = [type |-> "string"]

C28_RunSchemaEqualsClientSchema ==
    {"run", "client"} \subseteq DOMAIN returned =>
        /\ SchemaAsSpecified(returned.client)
        /\ SchemaAsSpecified(returned.run)
        /\ returned.run = returned.client


(***************************************************************************)
(* WorkspaceManager.load applied on its own to a workspace source: a dict  *)
(* of at most MaxItems items with different keys.                          *)
(***************************************************************************)
\* most items of a source
MaxItems == 3

\* keys: the root, a step, a function, a key with both markers and a key
\* with a marker that does not end in '#details'
SourceKeys ==
    {<<"W", "@v1", "#details">>,
     <<"W", "@v1", "@step-", "s1", "#details">>,
     <<"W", "@v1", "@func-", "f", "#details">>,
     <<"W", "@v1", "@func-", "f", "@step-", "s1", "#details">>,
     <<"W", "@v1", "@step-", "s1", "#notes">>}

\* values: dicts with 'steps', with 'functions', with neither
SourceValues ==
    {[steps |-> <<[id |-> "s1"]>>], [functions |-> <<"f">>], [description |-> "x"]}

WorkspaceSources ==
    {src \in Seqs(SourceKeys \X SourceValues, MaxItems) :
        \A i, j \in 1..Len(src) : i # j => src[i][1] # src[j][1]}

LoadInit ==
    /\ argument \in WorkspaceSources
    /\ returned = EmptyDict
    /\ pc = "load"
    /\ NoRunInit

\* WorkspaceManager.load(workspace_json)
Load ==
    /\ pc = "load"
    /\ "load" \notin DOMAIN returned
    /\ returned' = Put(returned, "load", load(argument))
    /\ UNCHANGED <<pc, argument>>
    /\ UNCHANGED NoRunState

LoadNext == Load

LoadSpec == LoadInit /\ [][LoadNext]_vars

(***************************************************************************)
(* C30.  load stores the value of every key that ends in '#details': as    *)
(* the details of function <name> when the key has a segment               *)
(* '@func-<name>', else as the details of step <id> when it has a segment  *)
(* '@step-<id>', else as the root, which supplies the steps and functions  *)
(* lists; the last item of a kind and name wins, and keys that do not end  *)
(* in '#details' contribute nothing.                                       *)
(***************************************************************************)
KeyOf(i) == argument[i][1]
ValueOf(i) == argument[i][2]
IsDetailsKey(key) == Len(key) > 0 /\ key[Len(key)] = "#details"
HasSegment(key, marker) == \E n \in 1..Len(key) : key[n] = marker
LastOf(S) == CHOOSE i \in S : \A j \in S : j <= i

FuncItems ==
    {i \in 1..Len(argument) :
        IsDetailsKey(KeyOf(i)) /\ HasSegment(KeyOf(i), "@func-")}

\* the items with a step segment, as the claim is worded
StepItemsAsStated ==
    {i \in 1..Len(argument) :
        IsDetailsKey(KeyOf(i)) /\ HasSegment(KeyOf(i), "@step-")}

StepItems == StepItemsAsStated \ FuncItems

RootItems ==
    {i \in 1..Len(argument) : IsDetailsKey(KeyOf(i))} \ (FuncItems \cup StepItemsAsStated)

\* details is the dict of the values of the items, by the name after the
\* marker, where the last item of a name wins
DetailsOf(details, items, marker) ==
    /\ DOMAIN details = {NameAfter(KeyOf(i), marker) : i \in items}
    /\ \A i \in items :
          details[NameAfter(KeyOf(i), marker)] =
              ValueOf(LastOf({j \in items :
                  NameAfter(KeyOf(j), marker) = NameAfter(KeyOf(i), marker)}))

\* the list the root items supply under a field ([]: none does)
RootList(field) ==
    LET with == {i \in RootItems : field \in DOMAIN ValueOf(i)}
    IN IF with = {} THEN <<>> ELSE ValueOf(LastOf(with))[field]

LoadedAs(data, stepItems) ==
    /\ DetailsOf(data.function_details, FuncItems, "@func-")
    /\ DetailsOf(data.step_details, stepItems, "@step-")
    /\ data.steps = RootList("steps")
    /\ data.functions = RootList("functions")

C30_LoadClassifiesDetailsKeys ==
    "load" \in DOMAIN returned => LoadedAs(returned.load, StepItems)

\* the claim as worded: every key with a step segment gives a StepSpec
C30_EveryStepKeyGivesStepSpec ==
    "load" \in DOMAIN returned => LoadedAs(returned.load, StepItemsAsStated)

\* a source with a key of both markers, a key that does not end in
\* '#details' and a root has been loaded
C30_Witness ==
    /\ pc = "load"
    /\ "load" \in DOMAIN returned
    /\ FuncItems \cap StepItemsAsStated # {}
    /\ \E i \in 1..Len(argument) : ~IsDetailsKey(KeyOf(i))
    /\ Len(returned.load.steps) > 0

(***************************************************************************)
(* The run endpoint (api/router.py).  run_workspace writes a DBRun row     *)
(* with status queued, hands run_workspace_async to the background tasks   *)
(* and answers with the id of the row.  The background task loads the      *)
(* workspace and awaits Workspace.run, which constructs the Run without a  *)
(* database session (workspace.py line 26), and logs whatever exception    *)
(* leaves it.  The actions of Run.execute are those of Spec.               *)
(***************************************************************************)

\* the state before the request is served; the Run that will be constructed
\* has self.db = None
ServedInit ==
    /\ workspace \in {load(j) : j \in WorkspaceJsons}
    /\ db = FALSE
    /\ pc = "request"
    /\ current_step = "none"
    /\ conversation_history = <<>>
    /\ results = EmptyDict
    /\ db_runs = <<>>
    /\ db_steps = <<>>
    /\ db_calls = <<>>
    /\ conversation = <<>>
    /\ tools = <<>>
    /\ tool_calls = <<>>
    /\ tasks = <<>>
    /\ gather_exc = NoException
    /\ error = NoException
    /\ visited = <<>>
    /\ gateway_calls = <<>>
    /\ calls_used = 0
    /\ dispatcher = "none"
    /\ yielded = <<>>
    /\ runs = <<>>
    /\ heap = <<>>
    /\ argument = <<>>
    /\ returned = <<>>

\* the variables the router itself does not touch
RunState ==
    <<workspace, db, current_step, conversation_history, results, db_steps,
      db_calls, conversation, tools, tool_calls, tasks, gather_exc, visited,
      gateway_calls, calls_used, dispatcher, yielded, runs, heap, argument>>

\* run_workspace: 404 when the workspace row is missing, else the queued
\* row is committed, the background task is added and the id is returned
run_workspace ==
    /\ pc = "request"
    /\ \E exists \in BOOLEAN :
          IF exists
          THEN /\ db_runs' = Append(db_runs, [status |-> "queued",
                                              results |-> EmptyDict])
               /\ returned' = [run_id |-> Len(db_runs) + 1, status |-> "queued"]
               /\ pc' = "background"
          ELSE /\ returned' = [status_code |-> 404]
               /\ pc' = "refused"
               /\ UNCHANGED db_runs
    /\ UNCHANGED error
    /\ UNCHANGED RunState

\* run_workspace_async up to the call of execute: get_workspace raises
\* ValueError when the row has been deleted meanwhile, else Workspace.run
\* constructs the Run
run_workspace_async ==
    /\ pc = "background"
    /\ \E exists \in BOOLEAN :
          IF exists
          THEN /\ pc' = "new"
               /\ UNCHANGED error
          ELSE /\ pc' = "logged"
               /\ error' = Exception("config", <<"Workspace not found">>)
    /\ UNCHANGED <<db_runs, returned>>
    /\ UNCHANGED RunState

\* the except branch of run_workspace_async: the exception that left
\* execute is printed and dropped
LogError ==
    /\ pc = "raised"
    /\ pc' = "logged"
    /\ UNCHANGED <<db_runs, returned, error>>
    /\ UNCHANGED RunState

ServedNext ==
    \/ run_workspace
    \/ run_workspace_async
    \/ LogError
    \/ Next

\* the event loop runs the background task and whatever it awaits to the end
ServedSpec == ServedInit /\ [][ServedNext]_vars /\ WF_vars(ServedNext)

\* the row run_workspace created, by the id it returned
Queued == "run_id" \in DOMAIN returned
QueuedRecord == db_runs[returned.run_id]

\* C31: once the run endpoint has created the queued Run record and returned
\* its id, that record eventually has a status other than queued and running,
\* so a client polling it by that id eventually stops.
C31_QueuedRecordEventuallyLeaves ==
    Queued ~> (Queued /\ QueuedRecord.status \notin {"queued", "running"})

(***************************************************************************)
(* C32.  Under Spec: every step id the cursor of execute takes is a key of *)
(* step_details, and no gateway call is made for a step id without a       *)
(* definition (empty message set, default model).                          *)
(***************************************************************************)
\* the step ids with a definition in the step graph
DefinedSteps == DOMAIN workspace.step_details

\* C32: every step id _execute_step was entered with, and so every step id a
\* gateway call was made for, has a definition in step_details.
C32_NoGatewayCallForUndefinedStep ==
    /\ \A k \in 1..Len(visited) : visited[k] \in DefinedSteps
    /\ \A k \in 1..Len(gateway_calls) :
          visited[gateway_calls[k].step] \in DefinedSteps

(***************************************************************************)
(* C33.  Under DispatcherSpec: the triples a generator of executor.py has  *)
(* yielded when it is over are a function of the batch and of the outcomes *)
(* of its calls alone, one triple per call in request order, so that       *)
(* execute_functions_parallel and execute_functions_sequential yield the   *)
(* same sequence.                                                          *)
(***************************************************************************)
\* the generator is exhausted or an exception has left it
GeneratorOver == pc \in {"end", "raised"}

\* what call i came to: the value returned, or the error dict of its exception
OutcomeOf(i) ==
    IF tasks[i].state = "done"
    THEN ReturnValue(tool_calls[i].function.name)
    ELSE ErrorOutcome(tasks[i].exc.msg)

\* C33: whichever of the two generators ran, once it is over it has yielded
\* exactly one (call id, function name, outcome) triple per call of the
\* batch, in request order.
C33_BothGeneratorsYieldTheSameTriples ==
    GeneratorOver =>
        /\ Len(yielded) = Len(tool_calls)
        /\ \A i \in 1..Len(yielded) :
              yielded[i] = Triple(tool_calls[i], OutcomeOf(i))

(***************************************************************************)
(* C34.  Under Spec, parallel policy: the arguments of every call of a     *)
(* batch are parsed before any function of the batch is started.  A batch  *)
(* with an arguments string that is not valid JSON runs no function, adds  *)
(* nothing to results and no tool message to the conversation, and the     *)
(* step is sealed failed.                                                  *)
(***************************************************************************)
\* an arguments string json.loads rejects
Malformed(call) == call.function.arguments = "{"

\* the batch the gateway has just requested holds a malformed call
MalformedBatch ==
    \E i \in 1..Len(tool_calls) : Malformed(tool_calls[i])

\* the messages of list new beyond those of list old are no tool messages
NoToolMessageAdded(old, new) ==
    /\ Len(new) >= Len(old)
    /\ \A k \in (Len(old) + 1)..Len(new) : new[k].role # "tool"

\* C34: under the parallel policy no call of a batch with a malformed
\* arguments string is ever started, and the step that receives such a batch
\* leaves results and the call records as they were, appends no tool
\* message, raises and seals its step record failed.
C34_ParallelParsesBeforeAnyStart ==
    [][ /\ (ParallelPolicy' /\ MalformedBatch') =>
              \A i \in 1..Len(tasks') : tasks'[i].state = "created"
        /\ (ParallelPolicy' /\ MalformedBatch' /\ tool_calls' # tool_calls) =>
              /\ results' = results
              /\ db_calls' = db_calls
              /\ NoToolMessageAdded(conversation_history, conversation_history')
              /\ NoToolMessageAdded(conversation, conversation')
              /\ pc' = "raised"
              /\ error'.kind = "json"
              /\ Len(db_steps') > 0 => db_steps'[Len(db_steps')].status = "failed"
      ]_vars

\* a parallel batch whose first call parses and whose second does not has
\* ended the step, and the first call was never started
C34_Witness ==
    /\ pc = "raised"
    /\ error.kind = "json"
    /\ ParallelPolicy
    /\ Len(tool_calls) = 2
    /\ ~Malformed(tool_calls[1])
    /\ Malformed(tool_calls[2])
    /\ tasks[1].state = "created"
    /\ Len(db_steps) > 0
    /\ db_steps[Len(db_steps)].status = "failed"

(***************************************************************************)
(* get_conversation_tokens of llm/conversation.py, applied on its own to   *)
(* a conversation.  A message is a dict that may lack each of its keys;    *)
(* strings are TLA+ strings, so that Len counts their characters.          *)
(***************************************************************************)
MaxMessages == 2

\* a key a message does not have
Absent == "<absent>"

Roles == {"user", "assistant", Absent}
Contents == {Absent, "", "hi", "hello"}

\* the 'tool_calls' entry of a message: none, an empty list, one call
ToolCallEntries ==
    {[present |-> FALSE, calls |-> <<>>],
     [present |-> TRUE, calls |-> <<>>],
     [present |-> TRUE, calls |-> <<ToolCall(1, "f", "{}")>>],
     [present |-> TRUE, calls |-> <<ToolCall(1, "f", "{}"), ToolCall(2, "g", "{")>>]}

Message(role, content, entry) ==
    LET m0 == IF role = Absent THEN EmptyDict ELSE Put(EmptyDict, "role", role)
        m1 == IF content = Absent THEN m0 ELSE Put(m0, "content", content)
    IN IF entry.present THEN Put(m1, "tool_calls", entry.calls) ELSE m1

Messages ==
    {Message(r, c, e) : r \in Roles, c \in Contents, e \in ToolCallEntries}

\* json.dumps of a string none of whose characters needs an escape
DumpsString(s) == "\"" \o s \o "\""

\* json.dumps of a tool call: keys in insertion order, ', ' and ': ' between
DumpsCall(call) ==
    "{\"id\": " \o DumpsString(call.id) \o ", \"function\": {\"name\": "
       \o DumpsString(call.function.name) \o ", \"arguments\": "
       \o DumpsString(call.function.arguments) \o "}}"

RECURSIVE DumpsItems(_, _)
DumpsItems(calls, i) ==
    IF i > Len(calls) THEN ""
    ELSE (IF i > 1 THEN ", " ELSE "") \o DumpsCall(calls[i])
            \o DumpsItems(calls, i + 1)

\* json.dumps(message["tool_calls"]), line 91
json_dumps(calls) == "[" \o DumpsItems(calls, 1) \o "]"

\* lines 82-92: what one message adds to total_chars
MessageChars(message) ==
    LET content == Get(message, "content", "")
    IN Len(Get(message, "role", ""))
         + (IF content # "" THEN Len(content) ELSE 0)
         + (IF "tool_calls" \in DOMAIN message
            THEN Len(json_dumps(message["tool_calls"])) ELSE 0)

\* the loop of lines 80-92
RECURSIVE TotalChars(_, _, _)
TotalChars(total_chars, messages, i) ==
    IF i > Len(messages) THEN total_chars
    ELSE TotalChars(total_chars + MessageChars(messages[i]), messages, i + 1)

\* a division that rounds up
CeilingQuarter(total_chars) == (total_chars + 3) \div 4

\* line 95: total_chars // 4
FloorQuarter(total_chars) == total_chars \div 4

get_conversation_tokens(messages) ==
    FloorQuarter(TotalChars(0, messages, 1))

TokensInit ==
    /\ argument \in Seqs(Messages, MaxMessages)
    /\ returned = EmptyDict
    /\ pc = "tokens"
    /\ NoRunInit

\* get_conversation_tokens(conversation)
Estimate ==
    /\ pc = "tokens"
    /\ "tokens" \notin DOMAIN returned
    /\ returned' = Put(returned, "tokens", get_conversation_tokens(argument))
    /\ UNCHANGED <<pc, argument>>
    /\ UNCHANGED NoRunState

TokensNext == Estimate

TokensSpec == TokensInit /\ [][TokensNext]_vars

(***************************************************************************)
(* C35.  Under TokensSpec: get_conversation_tokens returns floor(C / 4),   *)
(* C being the number of characters of the role label, of the content and  *)
(* of the JSON-serialized tool-call payload of every message.              *)
(***************************************************************************)
\* the characters of a serialized tool call: 53 of punctuation and keys,
\* and those of its id, name and arguments
CallCharacters(call) ==
    53 + Len(call.id) + Len(call.function.name) + Len(call.function.arguments)

RECURSIVE SumOver(_, _)
SumOver(f, n) == IF n = 0 THEN 0 ELSE f[n] + SumOver(f, n - 1)

\* the characters of a serialized list of tool calls: the two brackets, the
\* calls and ', ' between them
PayloadCharacters(calls) ==
    2 + SumOver([i \in 1..Len(calls) |-> CallCharacters(calls[i])], Len(calls))
      + (IF Len(calls) > 1 THEN 2 * (Len(calls) - 1) ELSE 0)

\* the characters counted for message k of the conversation
CharactersOf(k) ==
    LET message == argument[k]
    IN (IF "role" \in DOMAIN message THEN Len(message.role) ELSE 0)
         + (IF "content" \in DOMAIN message THEN Len(message.content) ELSE 0)
         + (IF "tool_calls" \in DOMAIN message
            THEN PayloadCharacters(message.tool_calls) ELSE 0)

Characters ==
    SumOver([k \in 1..Len(argument) |-> CharactersOf(k)], Len(argument))

\* C35: the estimate returned for a conversation is the largest integer t
\* with 4 * t <= C, C being the characters of all role labels, contents and
\* serialized tool-call payloads.
C35_TokensAreCharactersOverFour ==
    "tokens" \in DOMAIN returned =>
        /\ 4 * returned.tokens <= Characters
        /\ Characters < 4 * returned.tokens + 4

\* an estimate was made for two messages, one with a tool-call payload, and
\* the division left a remainder
C35_Witness ==
    /\ "tokens" \in DOMAIN returned
    /\ Len(argument) = 2
    /\ \E k \in 1..2 : /\ "tool_calls" \in DOMAIN argument[k]
                       /\ Len(argument[k].tool_calls) > 0
    /\ Characters % 4 # 0
    /\ returned.tokens > 0

=============================================================================
